---- MODULE Spec2Model ----
(***************************************************************************)
(* Model of pycorsikaio's record-framing engine (corsikaio/io.py) and of   *)
(* the event-header schema version table                                   *)
(* (corsikaio/subblocks/event_header.py).                                  *)
(*                                                                         *)
(* A file is held as a descriptor from which its size and every byte are   *)
(* computed (FileSize, ByteAt); a bytes object returned by f.read or by a  *)
(* slice is held as the half-open range [lo, hi) of file offsets it was    *)
(* read from, so two blocks are equal here only if they are the same bytes *)
(* of the file.  Versions (Python floats 6.5, 7.3, ...) are held as the    *)
(* integer number of tenths (65, 73, ...).                                 *)
(***************************************************************************)
EXTENDS Integers, Sequences, FiniteSets, TLC

VARIABLES
  file,            \* the bytes every handle delivers (the decompressed stream)
  handle,          \* the kind of the handles: "file", "bytesio", "gzip" or "zstd"
  pos,             \* iter_blocks: f.tell() of its handle
  pc,              \* iter_blocks: position of the generator
  is_fortran_file, \* iter_blocks: local
  buffer_size,     \* iter_blocks: local
  marker,          \* iter_blocks: bytes of the last record-length prefix read (line 75)
  data,            \* iter_blocks: local `data`
  block,           \* iter_blocks: index of the for loop of line 84
  yielded,         \* iter_blocks: the blocks yielded so far, in order
  rpos,            \* read_block: f.tell() of its handle
  rsize,           \* read_block: the buffer_size argument (None or an integer)
  rblocks,         \* read_block: the blocks returned so far, in order
  rstatus,         \* read_block: outcome of the last call
  table,           \* event_header_types: key -> name of the dtype object
  warnings,        \* number of warnings.warn calls made by warn()
  version,         \* key of the last lookup on event_header_types
  result,          \* dtype object returned by the last lookup
  opened           \* open_compressed: outcome of the call

vars == <<file, handle, pos, pc, is_fortran_file, buffer_size, marker, data,
          block, yielded, rpos, rsize, rblocks, rstatus, table, warnings,
          version, result, opened>>

iterVars == <<pos, pc, is_fortran_file, buffer_size, marker, data, block, yielded>>
readVars == <<rpos, rblocks, rstatus>>
tableVars == <<table, warnings, version, result>>

----------------------------------------------------------------------------
(* Bounds of the model. *)

\* raw files hold 1..MaxBlocks blocks
MaxBlocks == 3
\* record-framed files hold 1..MaxRecords records
MaxRecords == 2
\* a record's payload holds 0..MaxRecBlocks full blocks (plus 0 or 4 bytes)
MaxRecBlocks == 2
\* files are truncated by 0..MaxCut bytes, by half a block, or by
\* BLOCK_SIZE_BYTES - MaxCut .. BLOCK_SIZE_BYTES - 1 bytes
MaxCut == 9
\* long raw files hold c * 100 + d blocks, c in 0..MaxChunks, d in 0..MaxOver
MaxChunks == 2
MaxOver == 2
\* files given to open_compressed hold 0..MaxSniffLen bytes
MaxSniffLen == 4
\* versions looked up are MinVersionKey..MaxVersionKey (tenths)
MinVersionKey == 64
MaxVersionKey == 79

----------------------------------------------------------------------------
(* Constants of the program. *)

\* corsikaio/constants.py: 273 4-byte elements per block
BLOCK_SIZE_BYTES == 1092

\* a buffer size that is not a whole number of blocks
DEFAULT_BUFFER_SIZE_OffByOne == BLOCK_SIZE_BYTES * 100 + 1

DEFAULT_BUFFER_SIZE == BLOCK_SIZE_BYTES * 100

\* struct.Struct('i').size
RECORD_MARKER_size == 4

\* b'RUNH'
RUNH == <<82, 85, 78, 72>>

\* buffer_size=None of read_block
None == <<>>

Min(a, b) == IF a < b THEN a ELSE b

----------------------------------------------------------------------------
(* Files. *)

\* payload bytes other than markers
FillByte == 0

\* RECORD_MARKER.pack: a signed 32-bit integer as 4 bytes, native
\* (little-endian) byte order, two's complement
Pack32(n) ==
  LET m == IF n < 0 THEN n + 2147483647 + 1 ELSE n
      top == (m \div 16777216) + (IF n < 0 THEN 128 ELSE 0)
  IN  << m % 256, (m \div 256) % 256, (m \div 65536) % 256, top >>

\* RECORD_MARKER.unpack: 4 bytes, little-endian, as a signed 32-bit integer
RECORD_MARKER_unpack(b) ==
  b[1] + 256 * b[2] + 65536 * b[3]
    + 16777216 * (IF b[4] >= 128 THEN b[4] - 256 ELSE b[4])

RECURSIVE RecsSize(_)
RecsSize(recs) ==
  IF recs = <<>> THEN 0
  ELSE 4 + Head(recs).payload + 4 + RecsSize(Tail(recs))

\* size of the file before truncation
FullSize(f) ==
  CASE f.kind = "raw"    -> f.k * BLOCK_SIZE_BYTES
    [] f.kind = "framed" -> RecsSize(f.recs)
    [] OTHER             -> Len(f.bytes)

FileSize(f) == FullSize(f) - f.cut

RECURSIVE RecsByteAt(_, _)
RecsByteAt(recs, i) ==
  LET r == Head(recs)
  IN  IF i < 4 THEN Pack32(r.prefix)[i + 1]
      ELSE IF i < 4 + r.payload THEN FillByte
      ELSE IF i < 8 + r.payload THEN Pack32(r.suffix)[i - (4 + r.payload) + 1]
      ELSE RecsByteAt(Tail(recs), i - (8 + r.payload))

\* the byte at offset i (0-based), for 0 <= i < FileSize(f)
ByteAt(f, i) ==
  CASE f.kind = "raw"    -> IF i < 4 THEN RUNH[i + 1] ELSE FillByte
    [] f.kind = "framed" -> RecsByteAt(f.recs, i)
    [] OTHER             -> f.bytes[i + 1]

RawFile(k, cut) ==
  [kind |-> "raw", k |-> k, recs |-> <<>>, bytes |-> <<>>, cut |-> cut]

FramedFile(recs, cut) ==
  [kind |-> "framed", k |-> 0, recs |-> recs, bytes |-> <<>>, cut |-> cut]

BytesFile(bytes) ==
  [kind |-> "bytes", k |-> 0, recs |-> <<>>, bytes |-> bytes, cut |-> 0]

\* a record written as a FORTRAN sequential record: length, payload, length
Record(L) == [prefix |-> L, payload |-> L, suffix |-> L]

----------------------------------------------------------------------------
(* Handles: f.read(n) at position p returns the bytes [lo, hi). *)

Slice(lo, hi) == [lo |-> lo, hi |-> hi]

SliceLen(s) == s.hi - s.lo

\* f.read(n) at position p; a negative n reads to the end of the file
\* (p + n is not formed when it passes the end: n may be 2^31 - 1)
Read(f, p, n) ==
  IF p >= FileSize(f) THEN Slice(p, p)
  ELSE IF n < 0 THEN Slice(p, FileSize(f))
  ELSE IF n >= FileSize(f) - p THEN Slice(p, FileSize(f))
  ELSE Slice(p, p + n)

\* f.read(n) with n < -1 reads to the end on an io.BytesIO and raises
\* ValueError on a file handle, on a gzip handle and on the stream reader of
\* zstandard; f.read(-1) reads to the end on all of them
ReadRaisesValueError(h, n) == n < -1 /\ h # "bytesio"

\* f.seek(p) to an absolute position p with the handle at position cur: the
\* stream reader of zstandard cannot move backwards and raises OSError
SeekRaises(h, cur, p) == h = "zstd" /\ p < cur

\* f.tell() after an f.seek(p) that does not raise: a decompressing handle
\* reads forward to p and stops at the end of the stream, the other handles
\* move to p wherever the end is
Seek(h, f, p) == IF h \in {"gzip", "zstd"} THEN Min(p, FileSize(f)) ELSE p

\* the bytes of a slice, as a sequence
BytesOf(f, s) == [i \in 1..SliceLen(s) |-> ByteAt(f, s.lo + i - 1)]

\* data[start:stop] of a bytes object
SubSlice(s, start, stop) ==
  Slice(Min(s.lo + start, s.hi), Min(s.lo + stop, s.hi))

----------------------------------------------------------------------------
(* iter_blocks (io.py 62-94), a generator. *)

\* Start without the f.seek(0) of line 68
Start_NoSeek ==
  /\ pc = "start"
  /\ LET peek == Read(file, pos, 4)
     IN  /\ data' = peek
         /\ is_fortran_file' = ~(BytesOf(file, peek) = RUNH)
         /\ pos' = peek.hi
  /\ pc' = "loop"
  /\ UNCHANGED <<buffer_size, marker, block, yielded>>

\* lines 63-70: peek 4 bytes, rewind, classify
Start ==
  /\ pc = "start"
  /\ LET peek == Read(file, pos, 4)
     IN  /\ data' = peek
         /\ IF SeekRaises(handle, peek.hi, 0)
            \* line 68 raises: line 69 is not reached
            THEN /\ pc' = "OSError"
                 /\ pos' = peek.hi
                 /\ UNCHANGED is_fortran_file
            ELSE /\ pc' = "loop"
                 /\ pos' = Seek(handle, file, 0)
                 /\ is_fortran_file' = ~(BytesOf(file, peek) = RUNH)
  /\ UNCHANGED <<buffer_size, marker, block, yielded>>

\* ReadRecord with line 76 testing len(data) == 0: a prefix of 1..3 bytes
\* reaches RECORD_MARKER.unpack, which raises struct.error
ReadRecord_EmptyPrefixOnly ==
  /\ pc = "loop"
  /\ IF is_fortran_file
     THEN LET m == Read(file, pos, RECORD_MARKER_size)
          IN  /\ marker' = m
              /\ IF SliceLen(m) < RECORD_MARKER_size
                 THEN /\ pc' = IF SliceLen(m) = 0 THEN "raised" ELSE "struct.error"
                      /\ pos' = m.hi
                      /\ data' = m
                      /\ UNCHANGED <<buffer_size, block>>
                 ELSE LET size == RECORD_MARKER_unpack(BytesOf(file, m))
                          d == Read(file, m.hi, size)
                      IN  /\ buffer_size' = size
                          /\ IF ReadRaisesValueError(handle, size)
                             \* line 81 raises: data is still the prefix
                             THEN /\ pc' = "ValueError"
                                  /\ pos' = m.hi
                                  /\ data' = m
                                  /\ UNCHANGED block
                             ELSE /\ data' = d
                                  /\ pos' = d.hi
                                  /\ block' = 0
                                  /\ pc' = "for"
     ELSE LET d == Read(file, pos, buffer_size)
          IN  /\ data' = d
              /\ pos' = d.hi
              /\ block' = 0
              /\ pc' = "for"
              /\ UNCHANGED <<buffer_size, marker>>
  /\ UNCHANGED <<is_fortran_file, yielded>>

\* lines 72-83: top of the while loop up to the for loop
ReadRecord ==
  /\ pc = "loop"
  /\ IF is_fortran_file
     THEN LET m == Read(file, pos, RECORD_MARKER_size)
          IN  /\ marker' = m
              /\ IF SliceLen(m) < RECORD_MARKER_size
                 THEN /\ pc' = "raised"
                      /\ pos' = m.hi
                      /\ data' = m
                      /\ UNCHANGED <<buffer_size, block>>
                 ELSE LET size == RECORD_MARKER_unpack(BytesOf(file, m))
                          d == Read(file, m.hi, size)
                      IN  /\ buffer_size' = size
                          /\ IF ReadRaisesValueError(handle, size)
                             \* line 81 raises: data is still the prefix
                             THEN /\ pc' = "ValueError"
                                  /\ pos' = m.hi
                                  /\ data' = m
                                  /\ UNCHANGED block
                             ELSE /\ data' = d
                                  /\ pos' = d.hi
                                  /\ block' = 0
                                  /\ pc' = "for"
     ELSE LET d == Read(file, pos, buffer_size)
          IN  /\ data' = d
              /\ pos' = d.hi
              /\ block' = 0
              /\ pc' = "for"
              /\ UNCHANGED <<buffer_size, marker>>
  /\ UNCHANGED <<is_fortran_file, yielded>>

\* line 83
n_blocks == SliceLen(data) \div BLOCK_SIZE_BYTES

\* lines 84-90: one pass of the for loop
YieldBlock ==
  /\ pc = "for"
  /\ block < n_blocks
  /\ LET start == block * BLOCK_SIZE_BYTES
         stop == start + BLOCK_SIZE_BYTES
         blk == SubSlice(data, start, stop)
     IN  IF SliceLen(blk) < BLOCK_SIZE_BYTES
         THEN /\ pc' = "raised"
              /\ UNCHANGED <<block, yielded>>
         ELSE /\ yielded' = Append(yielded, blk)
              /\ block' = block + 1
              /\ pc' = "for"
  /\ UNCHANGED <<pos, is_fortran_file, buffer_size, marker, data>>

\* EndRecord without the read of the trailing record marker of line 94
EndRecord_NoSuffix ==
  /\ pc = "for"
  /\ block = n_blocks
  /\ pc' = "loop"
  /\ UNCHANGED <<pos, is_fortran_file, buffer_size, marker, data, block, yielded>>

\* EndRecord comparing the trailing record marker with the record length
\* and raising IOError when it is short or differs
EndRecord_CheckSuffix ==
  /\ pc = "for"
  /\ block = n_blocks
  /\ IF is_fortran_file
     THEN LET s == Read(file, pos, RECORD_MARKER_size)
          IN  /\ pos' = s.hi
              /\ pc' = IF SliceLen(s) = RECORD_MARKER_size
                          /\ RECORD_MARKER_unpack(BytesOf(file, s)) = buffer_size
                       THEN "loop"
                       ELSE "raised"
     ELSE /\ pos' = pos
          /\ pc' = "loop"
  /\ UNCHANGED <<is_fortran_file, buffer_size, marker, data, block, yielded>>

\* lines 92-94: the for loop is exhausted; read the trailing record marker
EndRecord ==
  /\ pc = "for"
  /\ block = n_blocks
  /\ pos' = IF is_fortran_file
            THEN Read(file, pos, RECORD_MARKER_size).hi
            ELSE pos
  /\ pc' = "loop"
  /\ UNCHANGED <<is_fortran_file, buffer_size, marker, data, block, yielded>>

----------------------------------------------------------------------------
(* read_block (io.py 97-118), called on a handle of its own. *)

\* read_block without the 8-byte skip at a record boundary
ReadBlock_NoBoundarySkip ==
  LET p0 == rpos
      p1 == IF rsize # None /\ p0 = 0 THEN Seek(handle, file, 4) ELSE p0
      blk == Read(file, p1, BLOCK_SIZE_BYTES)
  IN  /\ rpos' = blk.hi
      /\ IF SliceLen(blk) < BLOCK_SIZE_BYTES
         THEN /\ rstatus' = "IOError"
              /\ UNCHANGED rblocks
         ELSE /\ rstatus' = "returned"
              /\ rblocks' = Append(rblocks, blk)

\* one call read_block(f, rsize)
ReadBlock ==
  LET p0 == rpos
      p1 == IF rsize # None /\ p0 = 0 THEN Seek(handle, file, 4) ELSE p0
      p2 == IF rsize # None /\ (p0 + 4) % (rsize[1] + 8) = 0
            THEN Read(file, p1, 8).hi
            ELSE p1
      blk == Read(file, p2, BLOCK_SIZE_BYTES)
  IN  /\ rpos' = blk.hi
      /\ IF SliceLen(blk) < BLOCK_SIZE_BYTES
         THEN /\ rstatus' = "IOError"
              /\ UNCHANGED rblocks
         ELSE /\ rstatus' = "returned"
              /\ rblocks' = Append(rblocks, blk)

----------------------------------------------------------------------------
(* open_compressed (io.py 11-38). *)

\* is_gzip: "True", "False", or the IndexError of marker_bytes[0] / [1]
is_gzip(f) ==
  LET marker_bytes == BytesOf(f, Read(f, 0, 2))
  IN  IF Len(marker_bytes) < 1 THEN "IndexError"
      ELSE IF marker_bytes[1] # 31 THEN "False"
      ELSE IF Len(marker_bytes) < 2 THEN "IndexError"
      ELSE IF marker_bytes[2] = 139 THEN "True" ELSE "False"

is_zstd(f) ==
  LET marker_bytes == BytesOf(f, Read(f, 0, 4))
  IN  marker_bytes = <<40, 181, 47, 253>>

\* the reader open_compressed returns, or the exception it raises
open_compressed(f) ==
  LET g == is_gzip(f)
  IN  IF g = "IndexError" THEN "IndexError"
      ELSE IF g = "True" THEN "gzip"
      ELSE IF is_zstd(f) THEN "zstd"
      ELSE "plain"

OpenCompressed ==
  /\ opened = "not called"
  /\ opened' = open_compressed(file)

----------------------------------------------------------------------------
(* read_buffer_size (io.py 41-56). *)

\* a 32-bit value v, signed or unsigned, held as the two halves of
\* v = 65536 * high + low with 0 <= low < 65536
Halves(high, low) == [kind |-> "int", high |-> high, low |-> low]

\* the halves of an integer n
IntHalves(n) == Halves(n \div 65536, n % 65536)

\* struct.unpack('I', data): 4 bytes, little-endian, unsigned
unpack_I(b) == Halves(b[3] + 256 * b[4], b[1] + 256 * b[2])

\* a result that is not an integer: None, or the exception raised
NoInt(kind) == [kind |-> kind, high |-> 0, low |-> 0]

\* a stream whose read raises the error named: what a decompressing reader
\* delivers for bytes on disk that its codec does not accept
ReadError(name) == [kind |-> "error", error |-> name]

\* read_buffer_size on the path of a file holding the bytes disk.  When
\* open_compressed picks a decompressing reader, the stream it delivers is
\* the answer of the codec (gzip, zstandard) to those bytes, given as
\* decoded: a stream, or a ReadError; a plain file delivers disk itself
read_buffer_size(disk, decoded) ==
  LET o == open_compressed(disk)
      f == IF o = "plain" THEN disk ELSE decoded
  IN  IF o = "IndexError" THEN NoInt("IndexError")
      ELSE IF f.kind = "error" THEN NoInt(f.error)
      ELSE LET d == BytesOf(f, Read(f, 0, 4))
           IN  IF d = RUNH THEN NoInt("None")
               ELSE IF Len(d) < 4 THEN NoInt("struct.error")
               ELSE unpack_I(d)

\* the bytes on disk of the file behind a handle of kind h that delivers
\* the stream f, as far as open_compressed reads them: the magic number of
\* a compressed file, f itself otherwise
OnDisk(h, f) ==
  CASE h = "gzip" -> BytesFile(<<31, 139>>)
    [] h = "zstd" -> BytesFile(<<40, 181, 47, 253>>)
    [] OTHER      -> f

----------------------------------------------------------------------------
(* Event-header field lists (event_header.py 6-125). *)

\* dtype of Field when none is given: 4-byte float
DefaultDtype == "f4"

\* Field(position, name, dtype=..., shape=...); shape: <<>> scalar, <<n>>, <<n, m>>
Field(position, name, dtype, shape) ==
  [position |-> position, name |-> name, dtype |-> dtype, shape |-> shape]

event_header_fields_65 ==
  <<
    Field(1, "event_header", "S4", <<>>),
    Field(2, "event_number", DefaultDtype, <<>>),
    Field(3, "particle_id", DefaultDtype, <<>>),
    Field(4, "total_energy", DefaultDtype, <<>>),
    Field(5, "starting_altitude", DefaultDtype, <<>>),
    Field(6, "first_target_id", DefaultDtype, <<>>),
    Field(7, "first_interaction_height", DefaultDtype, <<>>),
    Field(8, "momentum_x", DefaultDtype, <<>>),
    Field(9, "momentum_y", DefaultDtype, <<>>),
    Field(10, "momentum_minus_z", DefaultDtype, <<>>),
    Field(11, "zenith", DefaultDtype, <<>>),
    Field(12, "azimuth", DefaultDtype, <<>>),
    Field(13, "n_random_sequences", DefaultDtype, <<>>),
    Field(14, "random_seeds", DefaultDtype, <<10, 3>>),
    Field(44, "run_number", DefaultDtype, <<>>),
    Field(45, "date", DefaultDtype, <<>>),
    Field(46, "version", DefaultDtype, <<>>),
    Field(47, "n_observation_levels", DefaultDtype, <<>>),
    Field(48, "observation_height", DefaultDtype, <<10>>),
    Field(58, "energy_spectrum_slope", DefaultDtype, <<>>),
    Field(59, "energy_min", DefaultDtype, <<>>),
    Field(60, "energy_max", DefaultDtype, <<>>),
    Field(61, "energy_cutoff_hadrons", DefaultDtype, <<>>),
    Field(62, "energy_cutoff_muons", DefaultDtype, <<>>),
    Field(63, "energy_cutoff_electrons", DefaultDtype, <<>>),
    Field(64, "energy_cutoff_photons", DefaultDtype, <<>>),
    Field(65, "nflain", DefaultDtype, <<>>),
    Field(66, "nfdif", DefaultDtype, <<>>),
    Field(67, "nflpi0", DefaultDtype, <<>>),
    Field(68, "nflpif", DefaultDtype, <<>>),
    Field(69, "nflche", DefaultDtype, <<>>),
    Field(70, "nfragm", DefaultDtype, <<>>),
    Field(71, "earth_magnetic_field_x", DefaultDtype, <<>>),
    Field(72, "earth_magnetic_field_z", DefaultDtype, <<>>),
    Field(73, "egs4_flag", DefaultDtype, <<>>),
    Field(74, "nkg_flag", DefaultDtype, <<>>),
    Field(75, "low_energy_hadron_model", DefaultDtype, <<>>),
    Field(76, "high_energy_hadron_model", DefaultDtype, <<>>),
    Field(77, "cerenkov_flag", DefaultDtype, <<>>),
    Field(78, "neutrino_flag", DefaultDtype, <<>>),
    Field(79, "curved_flag", DefaultDtype, <<>>),
    Field(80, "computer", DefaultDtype, <<>>),
    Field(81, "theta_min", DefaultDtype, <<>>),
    Field(82, "theta_max", DefaultDtype, <<>>),
    Field(83, "phi_min", DefaultDtype, <<>>),
    Field(84, "phi_max", DefaultDtype, <<>>),
    Field(85, "cherenkov_bunch_size", DefaultDtype, <<>>),
    Field(86, "n_cherenkov_detectors_x", DefaultDtype, <<>>),
    Field(87, "n_cherenkov_detectors_y", DefaultDtype, <<>>),
    Field(88, "cherenkov_detector_grid_spacing_x", DefaultDtype, <<>>),
    Field(89, "cherenkov_detector_grid_spacing_y", DefaultDtype, <<>>),
    Field(90, "cherenkov_detector_length_x", DefaultDtype, <<>>),
    Field(91, "cherenkov_detector_length_y", DefaultDtype, <<>>),
    Field(92, "cherenkov_output_flag", DefaultDtype, <<>>),
    Field(93, "angle_array_x_magnetic_north", DefaultDtype, <<>>),
    Field(94, "additional_muon_information_flag", DefaultDtype, <<>>),
    Field(95, "egs4_multpliple_scattering_step_length_factor", DefaultDtype, <<>>),
    Field(96, "cherenkov_wavelength_min", DefaultDtype, <<>>),
    Field(97, "cherenkov_wavelength_max", DefaultDtype, <<>>),
    Field(98, "n_reuse", DefaultDtype, <<>>),
    Field(99, "reuse_x", DefaultDtype, <<20>>),
    Field(119, "reuse_y", DefaultDtype, <<20>>),
    Field(139, "sybill_interaction_flag", DefaultDtype, <<>>),
    Field(140, "sybill_cross_section_flag", DefaultDtype, <<>>),
    Field(141, "qgsjet_interaction_flag", DefaultDtype, <<>>),
    Field(142, "qgsjet_cross_section_flag", DefaultDtype, <<>>),
    Field(143, "dpmjet_interaction_flag", DefaultDtype, <<>>),
    Field(144, "dpmjet_cross_section_flag", DefaultDtype, <<>>),
    Field(145, "venus_nexus_epos_cross_section_flag", DefaultDtype, <<>>),
    Field(146, "muon_multiple_scattering_flag", DefaultDtype, <<>>),
    Field(147, "nkg_radial_distribution_range", DefaultDtype, <<>>),
    Field(148, "energy_fraction_if_thinning_level_hadronic", DefaultDtype, <<>>),
    Field(149, "energy_fraction_if_thinning_level_em", DefaultDtype, <<>>),
    Field(150, "actual_weight_limit_thinning_hadronic", DefaultDtype, <<>>),
    Field(151, "actual_weight_limit_thinning_em", DefaultDtype, <<>>),
    Field(152, "max_radius_radial_thinning_cutting", DefaultDtype, <<>>),
    Field(153, "viewcone_inner_angle", DefaultDtype, <<>>),
    Field(154, "viewcone_outer_angle", DefaultDtype, <<>>),
    Field(155, "transition_energy_low_high_energy_model", DefaultDtype, <<>>)
  >>

event_header_fields_73 ==
  event_header_fields_65 \o <<
    Field(156, "skimming_incidence_flag", DefaultDtype, <<>>),
    Field(157, "horizontal_shower_exis_altitude", DefaultDtype, <<>>),
    Field(158, "starting_height", DefaultDtype, <<>>),
    Field(159, "explicit_charm_generation_flag", DefaultDtype, <<>>),
    Field(160, "electromagnetic_subshower_hadronic_origin_output_flag", DefaultDtype, <<>>),
    Field(161, "conex_min_vertical_depth", DefaultDtype, <<>>),
    Field(162, "conex_high_energy_treshold_hadrons", DefaultDtype, <<>>),
    Field(163, "conex_high_energy_treshold_muons", DefaultDtype, <<>>),
    Field(164, "conex_high_energy_treshold_em", DefaultDtype, <<>>),
    Field(165, "conex_low_energy_treshold_hadrons", DefaultDtype, <<>>),
    Field(166, "conex_low_energy_treshold_muons", DefaultDtype, <<>>),
    Field(167, "conex_low_energy_treshold_em", DefaultDtype, <<>>),
    Field(168, "observaton_level_curvature_flag", DefaultDtype, <<>>),
    Field(169, "conex_weight_limit_thinning_hadronic", DefaultDtype, <<>>),
    Field(170, "conex_weight_limit_thinning_em", DefaultDtype, <<>>),
    Field(171, "conex_weight_limit_sampling_hadronic", DefaultDtype, <<>>),
    Field(172, "conex_weight_limit_sampling_muons", DefaultDtype, <<>>),
    Field(173, "conex_weight_limit_sampling_em", DefaultDtype, <<>>)
  >>

\* event_header_fields_74 copied from the 6.5 list instead of the 7.3 list
event_header_fields_74_from_65 == event_header_fields_65

\* line 110
event_header_fields_74 == event_header_fields_73

\* event_header_fields_75 with multithin_random_seeds at 199 instead of 199 + 3
event_header_fields_75_Overlap ==
  event_header_fields_74 \o <<
    Field(174, "augerhit_stripes_half_width", DefaultDtype, <<>>),
    Field(175, "augerhit_detector_distance", DefaultDtype, <<>>),
    Field(176, "augerhit_reserved", DefaultDtype, <<>>),
    Field(177, "n_multithin", DefaultDtype, <<>>),
    Field(178, "multithin_energy_fraction_hadronic", DefaultDtype, <<6>>),
    Field(184, "multithin_weight_limit_hadronic", DefaultDtype, <<6>>),
    Field(190, "multithin_energy_fraction_em", DefaultDtype, <<6>>),
    Field(196, "multithin_weight_limit_em", DefaultDtype, <<6>>),
    Field(199, "multithin_random_seeds", DefaultDtype, <<6, 3>>),
    Field(220, "icecube_energy_threshold", DefaultDtype, <<>>),
    Field(221, "icecube_gzip_flag", DefaultDtype, <<>>),
    Field(222, "icecube_pipe_flag", DefaultDtype, <<>>)
  >>

\* lines 112-125
event_header_fields_75 ==
  event_header_fields_74 \o <<
    Field(174, "augerhit_stripes_half_width", DefaultDtype, <<>>),
    Field(175, "augerhit_detector_distance", DefaultDtype, <<>>),
    Field(176, "augerhit_reserved", DefaultDtype, <<>>),
    Field(177, "n_multithin", DefaultDtype, <<>>),
    Field(178, "multithin_energy_fraction_hadronic", DefaultDtype, <<6>>),
    Field(184, "multithin_weight_limit_hadronic", DefaultDtype, <<6>>),
    Field(190, "multithin_energy_fraction_em", DefaultDtype, <<6>>),
    Field(196, "multithin_weight_limit_em", DefaultDtype, <<6>>),
    Field(202, "multithin_random_seeds", DefaultDtype, <<6, 3>>),
    Field(220, "icecube_energy_threshold", DefaultDtype, <<>>),
    Field(221, "icecube_gzip_flag", DefaultDtype, <<>>),
    Field(222, "icecube_pipe_flag", DefaultDtype, <<>>)
  >>

RECURSIVE Product(_)
Product(shape) ==
  IF shape = <<>> THEN 1 ELSE Head(shape) * Product(Tail(shape))

\* corsikaio/subblocks/dtypes.py: the layout of a field list
build_dtype(fields) ==
  [i \in 1..Len(fields) |->
     [name   |-> fields[i].name,
      offset |-> (fields[i].position - 1) * 4,
      count  |-> Product(fields[i].shape),
      dtype  |-> fields[i].dtype,
      shape  |-> fields[i].shape]]

\* lines 127-132: the field list each module-level dtype object is built from
DtypeFields(name) ==
  CASE name = "event_header_dtype_65xxx" -> event_header_fields_65
    [] name = "event_header_dtype_73xxx" -> event_header_fields_73
    [] name = "event_header_dtype_74xxx" -> event_header_fields_74
    [] name = "event_header_dtype_75xxx" -> event_header_fields_75
    [] name = "event_header_dtype_76xxx" -> event_header_fields_75
    [] name = "event_header_dtype_77xxx" -> event_header_fields_75

\* the value of a dtype object (dtypes compare by value)
Dtype(name) == build_dtype(DtypeFields(name))

----------------------------------------------------------------------------
(* event_header_types (event_header.py 135-146), a defaultdict(warn). *)

\* lines 140-146: the table right after the module is imported
event_header_types ==
  (65 :> "event_header_dtype_65xxx") @@
  (73 :> "event_header_dtype_73xxx") @@
  (74 :> "event_header_dtype_74xxx") @@
  (75 :> "event_header_dtype_75xxx") @@
  (76 :> "event_header_dtype_76xxx") @@
  (77 :> "event_header_dtype_76xxx")

\* lines 135-137: the dtype object warn() returns (after one warnings.warn)
warn == "event_header_dtype_77xxx"

\* event_header_types[v]: defaultdict.__getitem__, whose __missing__ calls
\* warn() and stores what it returns under the key
Lookup(v) ==
  /\ version' = v
  /\ IF v \in DOMAIN table
     THEN /\ result' = table[v]
          /\ UNCHANGED <<table, warnings>>
     ELSE /\ warnings' = warnings + 1
          /\ table' = table @@ (v :> warn)
          /\ result' = warn

Versions == MinVersionKey..MaxVersionKey

KnownVersions == {65, 73, 74, 75, 76, 77}

----------------------------------------------------------------------------
(* Inputs. *)

Cuts ==
  (0..MaxCut) \cup {BLOCK_SIZE_BYTES \div 2}
    \cup ((BLOCK_SIZE_BYTES - MaxCut)..(BLOCK_SIZE_BYTES - 1))

\* payload lengths of the records of framed files
RecordLens ==
  {b * BLOCK_SIZE_BYTES : b \in 0..MaxRecBlocks} \cup {BLOCK_SIZE_BYTES + 4}

RecordSeqs ==
  UNION {[1..n -> {Record(L) : L \in RecordLens}] : n \in 1..MaxRecords}

RawFiles ==
  {RawFile(k, cut) : k \in 1..MaxBlocks, cut \in Cuts}

FramedFiles ==
  {f \in {FramedFile(recs, cut) : recs \in RecordSeqs, cut \in Cuts} :
     f.cut <= FullSize(f)}

\* records whose suffix marker is their length or their length plus one
SuffixRecords ==
  {[prefix |-> L, payload |-> L, suffix |-> L + d] :
     L \in RecordLens \ {BLOCK_SIZE_BYTES + 4}, d \in {0, 1}}

SuffixRecordSeqs == UNION {[1..n -> SuffixRecords] : n \in 1..MaxRecords}

\* untruncated framed files, some suffix markers differing from the prefix
SuffixFiles == {FramedFile(recs, 0) : recs \in SuffixRecordSeqs}

\* 32-bit patterns of a length prefix: 80000000, FFFFFFFB, FFFFFFFF, 7FFFFFFF
PrefixPatterns == {-2147483647 - 1, -5, -1, 2147483647}

\* a 4-byte prefix of any pattern and 4 more marker bytes, followed by
\* well-formed records
PatternFiles ==
  {FramedFile(<<[prefix |-> P, payload |-> 0, suffix |-> 0]>> \o recs, 0) :
     P \in PrefixPatterns,
     recs \in {r \in RecordSeqs : Len(r) < MaxRecords}}

BlockFiles ==
  RawFiles \cup FramedFiles \cup SuffixFiles \cup PatternFiles

\* long raw files: up to MaxChunks read chunks of DEFAULT_BUFFER_SIZE bytes
\* and up to MaxOver blocks more
ChunkFiles ==
  {RawFile(k, 0) :
     k \in {c * (DEFAULT_BUFFER_SIZE \div BLOCK_SIZE_BYTES) + d :
              c \in 0..MaxChunks, d \in 0..MaxOver} \ {0}}

\* bytes of the magic numbers, and one other byte
SniffBytes == {31, 139, 40, 181, 47, 253, 0}

SniffFiles ==
  {BytesFile(b) : b \in UNION {[1..n -> SniffBytes] : n \in 0..MaxSniffLen}}

\* the kinds of handle the functions are given
Handles == {"file", "bytesio", "gzip", "zstd"}

\* the record size a caller of read_block knows for a file
RSizes(f) ==
  {None} \cup
  (IF f.kind = "framed" THEN {<<f.recs[1].payload>>} ELSE {<<BLOCK_SIZE_BYTES>>})

----------------------------------------------------------------------------
(* Specifications. *)

IterInit ==
  /\ pos = 0
  /\ pc = "start"
  /\ is_fortran_file = TRUE
  /\ buffer_size = DEFAULT_BUFFER_SIZE
  /\ marker = Slice(0, 0)
  /\ data = Slice(0, 0)
  /\ block = 0
  /\ yielded = <<>>

ReadInit ==
  /\ rpos = 0
  /\ rblocks = <<>>
  /\ rstatus = "not called"

TableInit ==
  /\ table = event_header_types
  /\ warnings = 0
  /\ version = 0
  /\ result = "not called"

\* iter_blocks and read_block, each on a handle of its own over one file
Init ==
  /\ file \in BlockFiles
  /\ handle \in Handles
  /\ rsize \in RSizes(file)
  /\ IterInit /\ ReadInit /\ TableInit
  /\ opened = "not called"

IterStart == Start /\ UNCHANGED <<file, handle, rsize, opened>> /\ UNCHANGED readVars /\ UNCHANGED tableVars
IterReadRecord == ReadRecord /\ UNCHANGED <<file, handle, rsize, opened>> /\ UNCHANGED readVars /\ UNCHANGED tableVars
IterYieldBlock == YieldBlock /\ UNCHANGED <<file, handle, rsize, opened>> /\ UNCHANGED readVars /\ UNCHANGED tableVars
IterEndRecord == EndRecord /\ UNCHANGED <<file, handle, rsize, opened>> /\ UNCHANGED readVars /\ UNCHANGED tableVars
CallReadBlock == ReadBlock /\ UNCHANGED <<file, handle, rsize, opened>> /\ UNCHANGED iterVars /\ UNCHANGED tableVars

Next ==
  \/ IterStart
  \/ IterReadRecord
  \/ IterYieldBlock
  \/ IterEndRecord
  \/ CallReadBlock

Spec == Init /\ [][Next]_vars

\* iter_blocks alone, on long raw files
InitChunks ==
  /\ file \in ChunkFiles
  /\ handle \in Handles
  /\ rsize = None
  /\ IterInit /\ ReadInit /\ TableInit
  /\ opened = "not called"

NextChunks ==
  \/ IterStart
  \/ IterReadRecord
  \/ IterYieldBlock
  \/ IterEndRecord

SpecChunks == InitChunks /\ [][NextChunks]_vars

\* lookups on event_header_types
InitTable ==
  /\ file = BytesFile(<<>>)
  /\ handle = "file"
  /\ rsize = None
  /\ IterInit /\ ReadInit /\ TableInit
  /\ opened = "not called"

NextTable ==
  \E v \in Versions :
    Lookup(v) /\ UNCHANGED <<file, handle, rsize, opened>> /\ UNCHANGED iterVars /\ UNCHANGED readVars

SpecTable == InitTable /\ [][NextTable]_vars

\* open_compressed on a file of a few bytes
InitOpen ==
  /\ file \in SniffFiles
  /\ handle = "file"
  /\ rsize = None
  /\ IterInit /\ ReadInit /\ TableInit
  /\ opened = "not called"

NextOpen ==
  OpenCompressed /\ UNCHANGED <<file, handle, rsize>> /\ UNCHANGED iterVars /\ UNCHANGED readVars /\ UNCHANGED tableVars

SpecOpen == InitOpen /\ [][NextOpen]_vars

----------------------------------------------------------------------------
(* Properties. *)

IsPrefix(s, t) ==
  /\ Len(s) <= Len(t)
  /\ \A i \in 1..Len(s) : s[i] = t[i]

\* a raw-concatenated stream of k full blocks beginning with RUNH
WellFormedRaw(f) == f.kind = "raw" /\ f.cut = 0

\* a well-formed raw stream with its final 1..BLOCK_SIZE_BYTES-1 bytes removed
TruncatedRaw(f) ==
  f.kind = "raw" /\ f.cut >= 1 /\ f.cut <= BLOCK_SIZE_BYTES - 1

\* a stream of records, each a length L >= 0, L payload bytes, and L again
WellFormedFramed(f) ==
  /\ f.kind = "framed"
  /\ f.cut = 0
  /\ \A r \in 1..Len(f.recs) :
       /\ f.recs[r].payload >= 0
       /\ f.recs[r].prefix = f.recs[r].payload
       /\ f.recs[r].suffix = f.recs[r].payload

\* the stream is at least 4 bytes long and its first 4 bytes are RUNH
StartsWithRUNH(f) ==
  /\ FileSize(f) >= 4
  /\ \A i \in 0..3 : ByteAt(f, i) = RUNH[i + 1]

\* the generator has returned (StopIteration without an error)
Returned == pc = "returned"

\* the generator has raised IOError
Raised == pc = "raised"

\* C1: for a raw stream of exactly k full blocks beginning with RUNH, once
\* the read at a block boundary has returned zero bytes iter_blocks has
\* yielded exactly k blocks and has finished without an error.
C1_RawEndsCleanly ==
  (WellFormedRaw(file) /\ ~is_fortran_file /\ pc # "start" /\ SliceLen(data) = 0)
    => (Len(yielded) = file.k /\ Returned)

\* C2: in record-framed mode, when the read of a record-length prefix at
\* the end of a well-formed stream returns zero bytes, iter_blocks ends
\* without raising an error.
C2_FramedEndsCleanly ==
  (WellFormedFramed(file) /\ is_fortran_file /\ pc # "start"
     /\ marker = Slice(FileSize(file), FileSize(file)))
    => ~Raised

\* C3: for a raw stream with its final 1..BLOCK_SIZE_BYTES-1 bytes removed,
\* iter_blocks raises IOError when it reaches the partial trailing block:
\* it never has consumed the whole stream and handled every full block of
\* the data read without having raised.
C3_TruncatedRawRaises ==
  (TruncatedRaw(file) /\ pos = FileSize(file) /\ block = n_blocks) => Raised

\* the blocks of the records recs, the first of which starts at offset off:
\* the first floor(L / BLOCK_SIZE_BYTES) slices of each payload, in order
RECURSIVE ExpectedBlocks(_, _)
ExpectedBlocks(recs, off) ==
  IF recs = <<>> THEN <<>>
  ELSE LET L == Head(recs).payload
           n == L \div BLOCK_SIZE_BYTES
       IN  [j \in 1..n |-> Slice(off + 4 + (j - 1) * BLOCK_SIZE_BYTES,
                                 off + 4 + j * BLOCK_SIZE_BYTES)]
             \o ExpectedBlocks(Tail(recs), off + 4 + L + 4)

\* C4: for a well-formed record-framed stream the blocks yielded are, in
\* file order and record by record, the first floor(L_r / BLOCK_SIZE_BYTES)
\* slices of each record's payload (so no marker byte is in a block), and
\* once the stream is consumed all of them have been yielded.
C4_FramedBlocksInOrder ==
  WellFormedFramed(file) =>
    /\ IsPrefix(yielded, ExpectedBlocks(file.recs, 0))
    /\ (pos = FileSize(file) /\ pc \in {"loop", "raised"})
         => yielded = ExpectedBlocks(file.recs, 0)

C4_Witness ==
  /\ WellFormedFramed(file)
  /\ Len(file.recs) = 2
  /\ file.recs[1].payload = BLOCK_SIZE_BYTES + 4
  /\ pos = FileSize(file)
  /\ pc = "loop"
  /\ Len(yielded) = 3
  /\ yielded[2].lo = 4 + (BLOCK_SIZE_BYTES + 4) + 4 + 4

\* C5: every block yielded by iter_blocks and every block returned by
\* read_block has exactly BLOCK_SIZE_BYTES bytes, and a read that ends in
\* fewer bytes than a full block results in an error.
C5_FullBlocksOrError ==
  /\ \A i \in 1..Len(yielded) : SliceLen(yielded[i]) = BLOCK_SIZE_BYTES
  /\ \A i \in 1..Len(rblocks) : SliceLen(rblocks[i]) = BLOCK_SIZE_BYTES
  /\ rstatus = "returned"
       => (rblocks # <<>> /\ rblocks[Len(rblocks)].hi = rpos)
  /\ (~is_fortran_file /\ pc = "for" /\ block = n_blocks
        /\ SliceLen(data) % BLOCK_SIZE_BYTES # 0) => Raised

\* C6: every lookup of a version that is not a known version returns a
\* layout equal to the one of version 7.7 and emits exactly one warning.
C6_UnknownVersionWarns ==
  [][version' \notin KnownVersions =>
       /\ Dtype(result') = Dtype(event_header_types[77])
       /\ warnings' = warnings + 1]_vars

\* C7: the table is never mutated: after any lookups its keys and its
\* key-to-layout mapping are those of module initialization.
C7_TableNeverMutated == table = event_header_types

\* C8: with the known versions in increasing order, the field list of each
\* version is a prefix of the field list of every later version.
C8_SchemasCumulative ==
  \A v1 \in KnownVersions : \A v2 \in KnownVersions :
    v1 < v2 => IsPrefix(DtypeFields(table[v1]), DtypeFields(table[v2]))

C8_Witness ==
  /\ version = 75
  /\ result = table[75]
  /\ Len(DtypeFields(table[65])) < Len(DtypeFields(table[73]))
  /\ Len(DtypeFields(table[74])) < Len(DtypeFields(result))
  /\ DtypeFields(table[73])[Len(DtypeFields(table[65]))].name
       = "transition_energy_low_high_energy_model"

\* the reader the magic bytes of a file select
ExpectedReader(f) ==
  IF FileSize(f) >= 2 /\ ByteAt(f, 0) = 31 /\ ByteAt(f, 1) = 139 THEN "gzip"
  ELSE IF FileSize(f) >= 4 /\ ByteAt(f, 0) = 40 /\ ByteAt(f, 1) = 181
            /\ ByteAt(f, 2) = 47 /\ ByteAt(f, 3) = 253 THEN "zstd"
  ELSE "plain"

\* C9: for every file content, files of 0..3 bytes included, open_compressed
\* raises no error and returns the gzip reader iff the first 2 bytes are
\* 1F 8B, else the zstd reader iff the first 4 bytes are 28 B5 2F FD, else
\* a plain file reader.
C9_OpenNeverRaises ==
  opened # "not called" => opened = ExpectedReader(file)

\* C10: iter_blocks, given a handle at offset 0, classifies the stream as raw
\* iff its first 4 bytes are RUNH and as record-framed otherwise; after the
\* peek the position is 0 again, and the first read of the loop starts at
\* offset 0: the first record's length prefix (framed) or the first chunk
\* of blocks (raw).
C10_PeekAndRewind ==
  [][/\ (pc = "start" /\ pc' # "start")
          => /\ pc' = "loop"
             /\ pos' = 0
             /\ is_fortran_file' = ~StartsWithRUNH(file)
     /\ (pc = "loop" /\ pc' # "loop" /\ pos = 0)
          => IF is_fortran_file THEN marker'.lo = 0 ELSE data'.lo = 0]_vars

\* a well-formed framed stream whose records all have the payload length L
UniformFramed(f, L) ==
  /\ WellFormedFramed(f)
  /\ \A r \in 1..Len(f.recs) : f.recs[r].payload = L

\* C11: on a record-framed stream whose records all have the payload length
\* record_size, a positive multiple of BLOCK_SIZE_BYTES, repeated calls of
\* read_block(f, record_size) from offset 0 return the blocks iter_blocks
\* yields, in the same order: the payload slices, never marker bytes; the
\* first call that fails comes after the last block.
C11_ReadBlockMatchesIterBlocks ==
  (/\ rsize # None
   /\ rsize[1] > 0
   /\ rsize[1] % BLOCK_SIZE_BYTES = 0
   /\ UniformFramed(file, rsize[1]))
    => /\ IsPrefix(rblocks, ExpectedBlocks(file.recs, 0))
       /\ rstatus = "IOError" => rblocks = ExpectedBlocks(file.recs, 0)
       /\ \A i \in 1..Min(Len(rblocks), Len(yielded)) : rblocks[i] = yielded[i]
       /\ (pos = FileSize(file) /\ pc \in {"loop", "raised"} /\ rstatus = "IOError")
            => rblocks = yielded

C11_Witness ==
  /\ rsize = <<2 * BLOCK_SIZE_BYTES>>
  /\ UniformFramed(file, 2 * BLOCK_SIZE_BYTES)
  /\ Len(file.recs) = 2
  /\ rstatus = "IOError"
  /\ pc = "raised"
  /\ Len(rblocks) = 4
  /\ rblocks = yielded
  /\ rblocks[3].lo = 4 + 2 * BLOCK_SIZE_BYTES + 8

\* C12: in record-framed mode, once a record's payload read has returned
\* fewer bytes than its prefix announced, iter_blocks raises no error, at
\* that step or at any later one: the for loop over the short payload does
\* not raise, and the step that follows the record (data still holds the
\* short payload then) does not raise either.
C12_ShortPayloadEndsCleanly ==
  [][(/\ is_fortran_file
      /\ pc \in {"for", "loop"}
      /\ data.lo >= RECORD_MARKER_size
      /\ SliceLen(data) < buffer_size)
       => pc' \notin {"raised", "ValueError"}]_vars

\* C13: in record-framed mode, a read of a record-length prefix that
\* returns 1, 2 or 3 bytes makes iter_blocks raise IOError without yielding;
\* after the error no block is yielded and those yielded before stay.
C13_ShortPrefixRaises ==
  [][/\ (is_fortran_file /\ pc = "loop" /\ pc' # "loop"
           /\ SliceLen(marker') \in 1..(RECORD_MARKER_size - 1))
          => (pc' = "raised" /\ yielded' = yielded)
     /\ pc = "raised" => (pc' = "raised" /\ yielded' = yielded)]_vars

C13_Witness ==
  /\ is_fortran_file
  /\ pc = "raised"
  /\ SliceLen(marker) = 3
  /\ marker.hi = FileSize(file)
  /\ Len(yielded) = 2

\* C14: in record-framed mode, a record whose payload was read in full and
\* whose length is not a multiple of BLOCK_SIZE_BYTES makes iter_blocks raise
\* a truncation error: the for loop is never exhausted with the partial
\* trailing bytes left over and no error raised.
C14_PartialBlockInPayloadRaises ==
  (/\ is_fortran_file
   /\ pc = "for"
   /\ block = n_blocks
   /\ data.lo >= RECORD_MARKER_size
   /\ SliceLen(data) = buffer_size
   /\ SliceLen(data) % BLOCK_SIZE_BYTES # 0)
    => Raised

\* the 4 bytes at offset p are missing, short, or not the record length
\* decoded from the prefix of the current record
BadSuffixAt(p) ==
  LET s == Read(file, p, RECORD_MARKER_size)
  IN  \/ SliceLen(s) < RECORD_MARKER_size
      \/ RECORD_MARKER_unpack(BytesOf(file, s)) # buffer_size

\* C15 as claimed: in record-framed mode, when the suffix marker of the
\* record just read is missing, short, or differs from the length prefix,
\* iter_blocks raises an error instead of continuing with the next record.
C15_BadSuffixIsFatal ==
  [][(/\ is_fortran_file
      /\ pc = "loop"
      /\ data.lo >= RECORD_MARKER_size
      /\ BadSuffixAt(data.hi)
      /\ pc' # "loop")
       => pc' = "raised"]_vars

\* C15 as amended: in record-framed mode the suffix marker is consumed and
\* discarded unchecked: the step that ends a record reads up to 4 bytes,
\* raises nothing and yields nothing, whatever those bytes are; a suffix
\* that is missing or short is followed by an IOError at the next prefix
\* read, a suffix that only differs from the prefix is not noticed.
C15_SuffixDiscardedUnchecked ==
  [][/\ (is_fortran_file /\ pc = "for" /\ pc' # "for")
          => /\ pc' = "loop"
             /\ pos' = Read(file, pos, RECORD_MARKER_size).hi
             /\ yielded' = yielded
     /\ (/\ is_fortran_file
         /\ pc = "loop"
         /\ data.lo >= RECORD_MARKER_size
         /\ SliceLen(Read(file, data.hi, RECORD_MARKER_size)) < RECORD_MARKER_size
         /\ pc' # "loop")
          => (pc' = "raised" /\ yielded' = yielded)]_vars

C15_Witness ==
  /\ file \in SuffixFiles
  /\ Len(file.recs) = 2
  /\ file.recs[1].suffix # file.recs[1].prefix
  /\ file.recs[1].payload = BLOCK_SIZE_BYTES
  /\ pc = "loop"
  /\ pos = FileSize(file)
  /\ Len(yielded) = 3
  /\ yielded = ExpectedBlocks(file.recs, 0)

\* C16: in raw mode the i-th block yielded is bytes
\* [i * BLOCK_SIZE_BYTES, (i + 1) * BLOCK_SIZE_BYTES) of the stream (i from
\* 0), also across the 100-block read chunks, and once the stream of k full
\* blocks is consumed all k blocks have been yielded.
C16_RawBlocksInOrder ==
  WellFormedRaw(file) =>
    /\ Len(yielded) <= file.k
    /\ \A i \in 1..Len(yielded) :
         yielded[i] = Slice((i - 1) * BLOCK_SIZE_BYTES, i * BLOCK_SIZE_BYTES)
    /\ (pos = FileSize(file) /\ pc = "loop") => Len(yielded) = file.k

C16_Witness ==
  /\ WellFormedRaw(file)
  /\ file.k = 2 * (DEFAULT_BUFFER_SIZE \div BLOCK_SIZE_BYTES) + 1
  /\ pc = "loop"
  /\ pos = FileSize(file)
  /\ Len(yielded) = file.k
  /\ yielded[file.k].hi = FileSize(file)

\* C17: for a record-framed stream of at least 4 bytes, the record length
\* iter_blocks decodes from the first 4 bytes and uses as the payload size of
\* the first record is the value read_buffer_size returns for the stream.
C17_SameRecordLength ==
  (/\ is_fortran_file
   /\ FileSize(file) >= 4
   /\ pc \notin {"start", "loop"}
   /\ marker = Slice(0, RECORD_MARKER_size))
    => read_buffer_size(OnDisk(handle, file), file) = IntHalves(buffer_size)

\* max(L, 0)
NonNegative(L) == IF L < 0 THEN 0 ELSE L

\* C18: in record-framed mode, for a record with decoded length prefix L,
\* iter_blocks consumes at most max(L, 0) payload bytes and yields at most
\* floor(max(L, 0) / BLOCK_SIZE_BYTES) blocks before it reads the record's
\* suffix marker; a record with L <= 0 yields no block and consumes nothing.
C18_PayloadBoundedByPrefix ==
  (/\ is_fortran_file
   /\ pc = "for"
   /\ data.lo >= RECORD_MARKER_size)
    => /\ SliceLen(data) <= NonNegative(buffer_size)
       /\ n_blocks <= NonNegative(buffer_size) \div BLOCK_SIZE_BYTES

\* the last element a field occupies
LastElement(f) == f.position + Product(f.shape) - 1

\* each field of the list fs ends before the next one starts, names are
\* unique, and every range lies within the block
FieldRangesDisjoint(fs) ==
  /\ \A i \in 1..Len(fs) :
       /\ fs[i].position >= 1
       /\ LastElement(fs[i]) >= fs[i].position
       /\ (fs[i].position - 1) * 4 + 4 * Product(fs[i].shape)
            <= BLOCK_SIZE_BYTES
  /\ \A i \in 1..(Len(fs) - 1) : LastElement(fs[i]) < fs[i + 1].position
  /\ Cardinality({fs[i].name : i \in 1..Len(fs)}) = Len(fs)

\* C19: in the field list of every known version, a field at position p
\* with shape s occupying elements p .. p + product(s) - 1, each field ends
\* before the next one starts (so positions increase strictly and no two
\* ranges overlap), names are unique, and every range lies within the
\* block of BLOCK_SIZE_BYTES / 4 elements.
C19_FieldRangesDisjoint ==
  \A v \in KnownVersions : FieldRangesDisjoint(DtypeFields(table[v]))

C19_Witness ==
  /\ version = 77
  /\ result = table[77]
  /\ \E i \in 1..(Len(DtypeFields(result)) - 1) :
       /\ DtypeFields(result)[i].name = "multithin_random_seeds"
       /\ DtypeFields(result)[i].position = 202
       /\ LastElement(DtypeFields(result)[i]) = 219
       /\ DtypeFields(result)[i + 1].position = 220

====
